---- MODULE Spec2Model ----
(***************************************************************************)
(* TMS9900 assembly formatter (src/src/extension.ts).                      *)
(*                                                                         *)
(* A string is a sequence of one-character strings.  parseLine,            *)
(* formatOperands and formatLine are operators computed the way the        *)
(* TypeScript computes them; the two formatting providers are the loop     *)
(* of the driver state machine.                                            *)
(***************************************************************************)
EXTENDS Integers, Sequences, FiniteSets, TLC

VARIABLES
    config,      \* FormatConfig snapshot of the formatting pass
    line,        \* formatLine: the raw input line
    parsed,      \* formatLine: const parsed = parseLine(line)
    formatted,   \* formatLine: the returned string
    reformatted, \* formatLine applied to its own result
    lpc,         \* position of the single-line pipeline
    doc,         \* document: sequence of line texts (line i of the code is doc[i+1])
    first,       \* first line index of the pass (0, or range.start.line)
    last,        \* last line index of the pass (lineCount-1, or range.end.line)
    i,           \* loop variable of the provider
    edits,       \* const edits: vscode.TextEdit[]
    cancelled,   \* token.isCancellationRequested
    inspected,   \* line indices read through document.lineAt(i)
    pc           \* position of the provider: "off", "loop", "done"

vars == <<config, line, parsed, formatted, reformatted, lpc,
          doc, first, last, i, edits, cancelled, inspected, pc>>

lineVars == <<line, parsed, formatted, reformatted, lpc>>
driverVars == <<doc, first, last, i, edits, cancelled, inspected, pc>>

-----------------------------------------------------------------------------
(* Characters and the JavaScript string primitives the code uses.          *)

WhiteSpace == {" ", "\t"}

LowerCase == <<"a","b","c","d","e","f","g","h","i","j","k","l","m",
               "n","o","p","q","r","s","t","u","v","w","x","y","z">>

UpperCase == <<"A","B","C","D","E","F","G","H","I","J","K","L","M",
               "N","O","P","Q","R","S","T","U","V","W","X","Y","Z">>

toUpperChar(c) ==
    IF \E k \in 1..26 : LowerCase[k] = c
    THEN UpperCase[CHOOSE k \in 1..26 : LowerCase[k] = c]
    ELSE c

toUpperCase(s) == [k \in 1..Len(s) |-> toUpperChar(s[k])]

RECURSIVE trimStart(_)
trimStart(s) ==
    IF s = <<>> THEN <<>>
    ELSE IF Head(s) \in WhiteSpace THEN trimStart(Tail(s)) ELSE s

RECURSIVE trimEnd(_)
trimEnd(s) ==
    IF s = <<>> THEN <<>>
    ELSE IF s[Len(s)] \in WhiteSpace THEN trimEnd(SubSeq(s, 1, Len(s) - 1)) ELSE s

trim(s) == trimEnd(trimStart(s))

startsWith(s, c) == Len(s) >= 1 /\ s[1] = c

\* String.prototype.indexOf for a one-character pattern: 0-based, -1 if absent
indexOf(s, c) ==
    IF \E k \in 1..Len(s) : s[k] = c
    THEN (CHOOSE k \in 1..Len(s) : s[k] = c /\ \A j \in 1..(k - 1) : s[j] # c) - 1
    ELSE -1

\* String.prototype.substring(from, to) with 0-based, end-exclusive indices
substring(s, from, to) == SubSeq(s, from + 1, to)

RECURSIVE Spaces(_)
Spaces(n) == IF n <= 0 THEN <<>> ELSE <<" ">> \o Spaces(n - 1)

padEnd(s, n) == s \o Spaces(n - Len(s))

\* s.split(/\s+/)
RECURSIVE split(_)
split(s) ==
    IF \A k \in 1..Len(s) : s[k] \notin WhiteSpace THEN <<s>>
    ELSE LET n == CHOOSE k \in 1..Len(s) :
                      s[k] \in WhiteSpace /\ \A j \in 1..(k - 1) : s[j] \notin WhiteSpace
             rest == trimStart(SubSeq(s, n, Len(s)))
         IN  <<SubSeq(s, 1, n - 1)>> \o split(rest)

\* tokens.join(' ')
RECURSIVE join(_)
join(tokens) ==
    IF tokens = <<>> THEN <<>>
    ELSE IF Len(tokens) = 1 THEN tokens[1]
    ELSE tokens[1] \o <<" ">> \o join(Tail(tokens))

\* s.replace(/,\s*/g, ', ')
RECURSIVE replaceCommaStar(_)
replaceCommaStar(s) ==
    IF s = <<>> THEN <<>>
    ELSE IF Head(s) = "," THEN <<",", " ">> \o replaceCommaStar(trimStart(Tail(s)))
    ELSE <<Head(s)>> \o replaceCommaStar(Tail(s))

\* s.replace(/,\s+/g, ', ')
RECURSIVE replaceCommaPlus(_)
replaceCommaPlus(s) ==
    IF s = <<>> THEN <<>>
    ELSE IF Head(s) = "," /\ Len(s) >= 2 /\ s[2] \in WhiteSpace
         THEN <<",", " ">> \o replaceCommaPlus(trimStart(Tail(s)))
    ELSE <<Head(s)>> \o replaceCommaPlus(Tail(s))

-----------------------------------------------------------------------------
(* Vocabulary tables.                                                      *)

INSTRUCTIONS ==
  {
    <<"A">>, <<"A","B">>, <<"A","B","S">>, <<"A","I">>, <<"A","N","D","I">>, <<"B">>,
    <<"B","L">>, <<"B","L","W","P">>, <<"C">>, <<"C","B">>, <<"C","I">>, <<"C","L","R">>,
    <<"C","O","C">>, <<"C","Z","C">>, <<"D","E","C">>, <<"D","E","C","T">>, <<"D","I","V">>,
    <<"I","D","I","V">>, <<"I","N","C">>, <<"I","N","C","T">>, <<"I","N","V">>, <<"J","E","Q">>,
    <<"J","G","T">>, <<"J","H","E">>, <<"J","H">>, <<"J","L">>, <<"J","L","E">>,
    <<"J","L","T">>, <<"J","M","P">>, <<"J","N","C">>, <<"J","N","E">>, <<"J","N","O">>,
    <<"J","O","C">>, <<"J","O","P">>, <<"L","D","C","R">>, <<"L","I">>, <<"L","I","M","I">>,
    <<"L","R","E","X">>, <<"L","W","P","I">>, <<"M","O","V">>, <<"M","O","V","B">>,
    <<"M","P","Y">>, <<"N","E","G">>, <<"O","R","I">>, <<"R","T","W","P">>, <<"S">>,
    <<"S","B">>, <<"S","B","O">>, <<"S","B","Z">>, <<"S","E","T","O">>, <<"S","L","A">>,
    <<"S","R","A">>, <<"S","R","C">>, <<"S","R","L">>, <<"S","T","C","R">>, <<"S","T","S","T">>,
    <<"S","T","W","P">>, <<"S","W","P","B">>, <<"S","Z","C">>, <<"S","Z","F">>, <<"T","B">>,
    <<"X">>, <<"X","O","P">>, <<"X","O","R">>
  }

DIRECTIVES ==
  {
    <<"E","Q","U">>, <<"D","A","T","A">>, <<"B","Y","T","E">>, <<"T","E","X","T">>,
    <<"B","S","S">>, <<"B","E","S">>, <<"O","R","G">>, <<"E","N","D">>, <<"A","O","R","G">>,
    <<"R","O","R","G">>, <<"D","O","R","G">>, <<"I","D","T">>, <<"D","E","F">>, <<"R","E","F">>,
    <<"T","I","T","L">>, <<"P","A","G","E">>, <<"L","I","S","T">>, <<"U","N","L">>,
    <<"B","C","O","P","Y">>, <<"C","O","P","Y">>, <<"S","A","V","E">>
  }

-----------------------------------------------------------------------------
(* parseLine                                                               *)

EmptyParsed == [label |-> <<>>, instruction |-> <<>>, operands |-> <<>>, comment |-> <<>>]

\* const isInstOrDir = INSTRUCTIONS.has(..) || DIRECTIVES.has(..) || ..startsWith(".")
isInstOrDir(token) ==
    LET firstToken == toUpperCase(token)
    IN  firstToken \in INSTRUCTIONS \/ firstToken \in DIRECTIVES \/ startsWith(firstToken, ".")

parseLine(l) ==
    IF startsWith(trimStart(l), "*") \/ startsWith(trimStart(l), ";")
    THEN [EmptyParsed EXCEPT !.comment = trimStart(l)]
    ELSE
      LET commentIndex == indexOf(l, ";")
          codePart0 == IF commentIndex >= 0 THEN substring(l, 0, commentIndex) ELSE l
          comment == IF commentIndex >= 0 THEN trim(substring(l, commentIndex, Len(l))) ELSE <<>>
          result == [EmptyParsed EXCEPT !.comment = comment]
          codePart == trimEnd(codePart0)
      IN
        IF trim(codePart) = <<>> THEN result
        ELSE
          LET tokens == split(trim(codePart))
              isID == isInstOrDir(tokens[1])
          IN
            IF ~isID /\ Len(tokens) = 1
            THEN [result EXCEPT !.label = tokens[1]]
            ELSE
              LET tokenIndex == IF ~isID /\ Len(tokens) > 1 THEN 2 ELSE 1
                  withLabel == IF tokenIndex = 2
                               THEN [result EXCEPT !.label = tokens[1]] ELSE result
                  withInst == IF tokenIndex <= Len(tokens)
                              THEN [withLabel EXCEPT !.instruction = tokens[tokenIndex]]
                              ELSE withLabel
                  opIndex == IF tokenIndex <= Len(tokens) THEN tokenIndex + 1 ELSE tokenIndex
              IN
                IF opIndex <= Len(tokens)
                THEN [withInst EXCEPT !.operands = join(SubSeq(tokens, opIndex, Len(tokens)))]
                ELSE withInst

-----------------------------------------------------------------------------
(* formatOperands and formatLine                                           *)

\* s.replace(/,/g, ', '): the blanks after a comma are kept
RECURSIVE replaceCommaOnly(_)
replaceCommaOnly(s) ==
    IF s = <<>> THEN <<>>
    ELSE IF Head(s) = "," THEN <<",", " ">> \o replaceCommaOnly(Tail(s))
    ELSE <<Head(s)>> \o replaceCommaOnly(Tail(s))

\* variant of formatOperands: a blank is inserted after every comma, none removed
formatOperandsNoSkip(operands, c) ==
    IF operands = <<>> THEN <<>>
    ELSE IF c.spaceAfterComma THEN replaceCommaOnly(operands)
    ELSE operands

formatOperands(operands, c) ==
    IF operands = <<>> THEN <<>>
    ELSE IF c.spaceAfterComma THEN replaceCommaPlus(replaceCommaStar(operands))
    ELSE operands

\* variant of labelPart: ">" where the code has ">="
labelPartStrict(p, c) ==
    IF p.label # <<>>
    THEN IF Len(p.label) > c.instructionColumn
         THEN p.label \o <<" ">>
         ELSE padEnd(p.label, c.instructionColumn)
    ELSE padEnd(<<>>, c.instructionColumn)

\* lines 149-159: the label field, or the placeholder of instructionColumn spaces
labelPart(p, c) ==
    IF p.label # <<>>
    THEN IF Len(p.label) >= c.instructionColumn
         THEN p.label \o <<" ">>
         ELSE padEnd(p.label, c.instructionColumn)
    ELSE padEnd(<<>>, c.instructionColumn)

\* lines 164-168: what the renderer takes for an instruction or a directive
recognisedForCasing(inst) ==
    LET instUpper == toUpperCase(inst)
    IN  instUpper \in INSTRUCTIONS \/ instUpper \in DIRECTIVES

\* variant of casedInstruction: the flags alone decide, the tables are not consulted
casedInstructionAll(inst, c) ==
    IF c.uppercaseInstructions \/ c.uppercaseDirectives THEN toUpperCase(inst) ELSE inst

\* lines 162-170: the casing decision
casedInstruction(inst, c) ==
    LET instUpper == toUpperCase(inst)
    IN  IF instUpper \in INSTRUCTIONS /\ c.uppercaseInstructions THEN instUpper
        ELSE IF instUpper \in DIRECTIVES /\ c.uppercaseDirectives THEN instUpper
        ELSE inst

\* lines 147-186: label, instruction and operands, before the comment is placed
codeText(p, c) ==
    LET f1 == labelPart(p, c)
        f2 == IF p.instruction # <<>> THEN f1 \o casedInstruction(p.instruction, c) ELSE f1
    IN  IF p.operands # <<>>
        THEN trimEnd(f2) \o <<" ">> \o formatOperands(p.operands, c)
        ELSE f2

\* variant of commentOnlyLine: the raw line is emitted instead of parsed.comment
commentOnlyLineRaw(l, p, c) ==
    IF trimStart(l) = l
    THEN p.comment
    ELSE padEnd(<<>>, c.commentColumn) \o l

\* variant of commentOnlyLine: the column-0 test is dropped
commentOnlyLineAlwaysPad(l, p, c) ==
    padEnd(<<>>, c.commentColumn) \o p.comment

\* lines 136-145: the comment-only branch
commentOnlyLine(l, p, c) ==
    IF trimStart(l) = l
    THEN p.comment
    ELSE padEnd(<<>>, c.commentColumn) \o p.comment

\* variant of placeComment: the padding branch is missing
placeCommentNoPad(f, p, c) ==
    IF p.comment # <<>>
    THEN trimEnd(f) \o <<" ", " ">> \o p.comment
    ELSE f

\* lines 188-197: comment placement
placeComment(f, p, c) ==
    IF p.comment # <<>>
    THEN IF Len(trimEnd(f)) < c.commentColumn
         THEN padEnd(trimEnd(f), c.commentColumn) \o p.comment
         ELSE trimEnd(f) \o <<" ", " ">> \o p.comment
    ELSE f

formatLine(l, c) ==
    IF trim(l) = <<>> THEN <<>>
    ELSE
      LET p == parseLine(l)
      IN  IF p.comment # <<>> /\ p.label = <<>> /\ p.instruction = <<>> /\ p.operands = <<>>
          THEN commentOnlyLine(l, p, c)
          ELSE trimEnd(placeComment(codeText(p, c), p, c))

-----------------------------------------------------------------------------
(* Inputs of the single-line pipeline.                                     *)

MaxTokens == 3

\* a (instruction A), q (unknown), .d (dot token), equ (directive EQU),
\* r,s and r, (tokens carrying commas)
TokenSet ==
    { <<"a">>, <<"q">>, <<".","d">>, <<"e","q","u">>, <<"r",",","s">>, <<"r",",">> }

\* leading whitespace and the separator written between tokens
Layouts ==
    { [lead |-> <<>>, sep |-> <<" ">>],
      [lead |-> <<" ">>, sep |-> <<" ">>],
      [lead |-> <<"\t">>, sep |-> <<"\t", " ">>] }

\* what follows the tokens: nothing, trailing blanks, comments
Tails ==
    { <<>>, <<" ">>, <<";","c">>, <<" ",";","c",","," ",";"," ">>, <<"*","c"," ">> }

RECURSIVE joinWith(_, _)
joinWith(tokens, sep) ==
    IF tokens = <<>> THEN <<>>
    ELSE IF Len(tokens) = 1 THEN tokens[1]
    ELSE tokens[1] \o sep \o joinWith(Tail(tokens), sep)

TokenSeqs == UNION { [1..n -> TokenSet] : n \in 0..MaxTokens }

LineInputs ==
    { lay.lead \o joinWith(toks, lay.sep) \o tail :
        lay \in Layouts, toks \in TokenSeqs, tail \in Tails }

Configs ==
    { [labelColumn |-> 0, instructionColumn |-> cols[1], operandColumn |-> 18,
       commentColumn |-> cols[2], uppercaseInstructions |-> ui,
       uppercaseDirectives |-> ud, spaceAfterComma |-> sac] :
        cols \in { <<3, 6>>, <<0, 0>> }, ui \in BOOLEAN, ud \in BOOLEAN, sac \in BOOLEAN }

-----------------------------------------------------------------------------
(* The single-line pipeline: formatLine, then formatLine on its result.    *)

LineInit ==
    /\ config \in Configs
    /\ line \in LineInputs
    /\ parsed = EmptyParsed
    /\ formatted = <<>>
    /\ reformatted = <<>>
    /\ lpc = "input"
    /\ doc = <<>> /\ first = 0 /\ last = -1 /\ i = 0
    /\ edits = <<>> /\ cancelled = FALSE /\ inspected = {} /\ pc = "off"

Format ==
    /\ lpc = "input"
    /\ parsed' = parseLine(line)
    /\ formatted' = formatLine(line, config)
    /\ lpc' = "formatted"
    /\ UNCHANGED <<config, line, reformatted, driverVars>>

Reformat ==
    /\ lpc = "formatted"
    /\ reformatted' = formatLine(formatted, config)
    /\ lpc' = "reformatted"
    /\ UNCHANGED <<config, line, parsed, formatted, driverVars>>

LineNext == Format \/ Reformat

LineSpec == LineInit /\ [][LineNext]_vars

-----------------------------------------------------------------------------
(* The formatting providers: provideDocumentFormattingEdits and            *)
(* provideDocumentRangeFormattingEdits share one loop; they differ in the  *)
(* bounds of i.                                                            *)

MaxLines == 3

SampleLines ==
    { <<>>, <<" ">>, <<"a">>, <<" ", " ", " ", "A">>, <<"*", "c">>, <<"q", " ", ";", "c">> }

Documents == UNION { [1..n -> SampleLines] : n \in 1..MaxLines }

DriverConfigs == { c \in Configs : c.instructionColumn = 3 /\ c.uppercaseDirectives /\ c.spaceAfterComma }

Init ==
    /\ config \in DriverConfigs
    /\ doc \in Documents
    /\ first = 0 /\ last = -1 /\ i = 0
    /\ edits = <<>>
    /\ cancelled = FALSE
    /\ inspected = {}
    /\ pc = "idle"
    /\ line = <<>> /\ parsed = EmptyParsed /\ formatted = <<>> /\ reformatted = <<>>
    /\ lpc = "off"

\* provideDocumentFormattingEdits: for (let i = 0; i < document.lineCount; i++)
StartDocument ==
    /\ pc = "idle"
    /\ first' = 0
    /\ last' = Len(doc) - 1
    /\ i' = 0
    /\ edits' = <<>>
    /\ pc' = "loop"
    /\ UNCHANGED <<config, doc, cancelled, inspected, lineVars>>

\* provideDocumentRangeFormattingEdits:
\* for (let i = range.start.line; i <= range.end.line; i++)
StartRange ==
    /\ pc = "idle"
    /\ \E s \in 0..(Len(doc) - 1) : \E e \in s..(Len(doc) - 1) :
          /\ first' = s
          /\ last' = e
          /\ i' = s
    /\ edits' = <<>>
    /\ pc' = "loop"
    /\ UNCHANGED <<config, doc, cancelled, inspected, lineVars>>

\* the host requests cancellation; the token never goes back
Cancel ==
    /\ pc \in {"idle", "loop"}
    /\ ~cancelled
    /\ cancelled' = TRUE
    /\ UNCHANGED <<config, doc, first, last, i, edits, inspected, pc, lineVars>>

\* variant of Break: the token is polled but the line is processed all the same
BreakIgnored ==
    /\ pc = "loop"
    /\ i <= last
    /\ cancelled
    /\ LET text == doc[i + 1]
           result == formatLine(text, config)
       IN  edits' = IF result # text
                    THEN Append(edits, [line |-> i, text |-> result])
                    ELSE edits
    /\ inspected' = inspected \cup {i}
    /\ i' = i + 1
    /\ UNCHANGED <<config, doc, first, last, cancelled, pc, lineVars>>

\* if (token.isCancellationRequested) { break; }
Break ==
    /\ pc = "loop"
    /\ i <= last
    /\ cancelled
    /\ pc' = "done"
    /\ UNCHANGED <<config, doc, first, last, i, edits, cancelled, inspected, lineVars>>

\* variant of ProcessLine: an edit is pushed for every line, changed or not
ProcessLineAlwaysEdit ==
    /\ pc = "loop"
    /\ i <= last
    /\ ~cancelled
    /\ edits' = Append(edits, [line |-> i, text |-> formatLine(doc[i + 1], config)])
    /\ inspected' = inspected \cup {i}
    /\ i' = i + 1
    /\ UNCHANGED <<config, doc, first, last, cancelled, pc, lineVars>>

\* one iteration of the loop body on line i
ProcessLine ==
    /\ pc = "loop"
    /\ i <= last
    /\ ~cancelled
    /\ LET text == doc[i + 1]
           result == formatLine(text, config)
       IN  edits' = IF result # text
                    THEN Append(edits, [line |-> i, text |-> result])
                    ELSE edits
    /\ inspected' = inspected \cup {i}
    /\ i' = i + 1
    /\ UNCHANGED <<config, doc, first, last, cancelled, pc, lineVars>>

\* the loop condition fails: return edits
Return ==
    /\ pc = "loop"
    /\ i > last
    /\ pc' = "done"
    /\ UNCHANGED <<config, doc, first, last, i, edits, cancelled, inspected, lineVars>>

Next == StartDocument \/ StartRange \/ Cancel \/ Break \/ ProcessLine \/ Return

Spec == Init /\ [][Next]_vars

-----------------------------------------------------------------------------
(* Vocabulary of the properties.                                           *)

EndsInWhiteSpace(s) == s # <<>> /\ s[Len(s)] \in WhiteSpace

IsBlank(l) == \A k \in 1..Len(l) : l[k] \in WhiteSpace

FirstNonBlank(l) == CHOOSE k \in 1..Len(l) : l[k] \notin WhiteSpace /\ \A j \in 1..(k - 1) : l[j] \in WhiteSpace

IsWholeLineComment(l) == ~IsBlank(l) /\ l[FirstNonBlank(l)] \in {"*", ";"}

HasInlineComment(l) == ~IsBlank(l) /\ ~IsWholeLineComment(l) /\ \E k \in 1..Len(l) : l[k] = ";"

\* the inline comment of l: from the first ';' on, without surrounding blanks
InlineComment(l) == trim(SubSeq(l, indexOf(l, ";") + 1, Len(l)))

\* 0-based column at which the instruction is expected
InstructionStart(p, c) ==
    IF p.label # <<>> /\ Len(p.label) >= c.instructionColumn
    THEN Len(p.label) + 1
    ELSE c.instructionColumn

\* 0-based column of the first operand character in the output
OperandStart(p, c) == InstructionStart(p, c) + Len(p.instruction) + 1

\* 1-based index of the last character of the output that belongs to the code
CodeEnd(f, p) ==
    IF p.comment # <<>> THEN Len(trimEnd(SubSeq(f, 1, Len(f) - Len(p.comment)))) ELSE Len(f)

OutOperands(f, p, c) == SubSeq(f, OperandStart(p, c) + 1, CodeEnd(f, p))

CountCommas(s) == Cardinality({k \in 1..Len(s) : s[k] = ","})

\* the commas of the label, the instruction and the comment are where they were
OtherCommasKept(f, p, c) ==
    /\ p.label # <<>> => SubSeq(f, 1, Len(p.label)) = p.label
    /\ p.instruction # <<>> =>
          toUpperCase(SubSeq(f, InstructionStart(p, c) + 1,
                             InstructionStart(p, c) + Len(p.instruction)))
             = toUpperCase(p.instruction)
    /\ p.comment # <<>> => SubSeq(f, Len(f) - Len(p.comment) + 1, Len(f)) = p.comment

\* the edits of a pass over lines lo..hi that nothing interrupts
RECURSIVE FullRunEdits(_, _, _, _)
FullRunEdits(d, c, lo, hi) ==
    IF lo > hi THEN <<>>
    ELSE (IF formatLine(d[lo + 1], c) # d[lo + 1]
          THEN <<[line |-> lo, text |-> formatLine(d[lo + 1], c)]>>
          ELSE <<>>) \o FullRunEdits(d, c, lo + 1, hi)

-----------------------------------------------------------------------------
(* Properties.                                                             *)

\* C1: formatting is idempotent: formatLine applied to a formatted line
\* returns that line, so a second pass finds nothing to edit.
Idempotence ==
    lpc = "reformatted" => reformatted = formatted

IdempotenceWitness ==
    /\ lpc = "reformatted"
    /\ formatted # line
    /\ parsed.label # <<>> /\ parsed.operands # <<>> /\ parsed.comment # <<>>
    /\ reformatted = formatted

\* C2: the token is polled before each line; once it is seen set the pass
\* stops, and what is returned is the edit list of an uninterrupted pass
\* over the K lines processed so far; no later line is read or edited.
CancellationSafety ==
    /\ [](pc \in {"loop", "done"} =>
            /\ edits = FullRunEdits(doc, config, first, i - 1)
            /\ inspected = first..(i - 1))
    /\ [][cancelled /\ pc = "loop" =>
            /\ pc' = "done"
            /\ edits' = edits
            /\ inspected' = inspected
            /\ i' = i]_vars

CancellationWitness ==
    /\ pc = "done"
    /\ cancelled
    /\ first < i /\ i <= last
    /\ edits # <<>>
    /\ edits # FullRunEdits(doc, config, first, last)

\* C3: an uninterrupted pass returns an edit for line n exactly when n is in
\* the processed range and formatLine changes it; the edit carries
\* formatLine of that line; the edits are in strictly increasing line order.
SparseEdits ==
    pc = "done" /\ i > last =>
        /\ \A n \in 0..(Len(doc) - 1) :
              (\E k \in 1..Len(edits) : edits[k].line = n)
                 <=> (n \in first..last /\ formatLine(doc[n + 1], config) # doc[n + 1])
        /\ \A k \in 1..Len(edits) :
              edits[k].text = formatLine(doc[edits[k].line + 1], config)
        /\ \A k \in 1..Len(edits) : \A m \in 1..Len(edits) :
              k < m => edits[k].line < edits[m].line

SparseEditsWitness ==
    /\ pc = "done" /\ i > last
    /\ first > 0
    /\ Len(edits) >= 1
    /\ Len(edits) < last - first + 1

\* C4: the string returned by formatLine never ends in whitespace.
NoTrailingWhitespace ==
    lpc = "formatted" => ~EndsInWhiteSpace(formatted)

\* C5: when the rendered code part is shorter than commentColumn, exactly
\* commentColumn characters precede the inline comment in the output.
CommentColumnFidelity ==
    lpc = "formatted" /\ HasInlineComment(line)
      /\ Len(trimEnd(codeText(parsed, config))) < config.commentColumn =>
        /\ indexOf(formatted, ";") = config.commentColumn
        /\ SubSeq(formatted, config.commentColumn + 1, Len(formatted)) = InlineComment(line)

CommentColumnWitness ==
    /\ lpc = "formatted" /\ HasInlineComment(line)
    /\ parsed.instruction # <<>>
    /\ Len(trimEnd(codeText(parsed, config))) < config.commentColumn
    /\ indexOf(formatted, ";") = config.commentColumn

\* C6: the parser and the renderer classify every token alike: a token is an
\* instruction or directive for parseLine exactly when it is one for the
\* casing decision of formatLine.
SameClassification ==
    lpc = "formatted" =>
        \A t \in {parsed.label, parsed.instruction} \ {<<>>} :
            isInstOrDir(t) <=> recognisedForCasing(t)

\* C7 as first stated: with spaceAfterComma every comma of the operand field
\* is followed in the output by exactly one space; without it the operands
\* are emitted as parsed; the other fields keep their commas.
CommaAlwaysSpaced ==
    lpc = "formatted" /\ ~IsBlank(line) =>
        /\ OtherCommasKept(formatted, parsed, config)
        /\ parsed.operands # <<>> /\ ~config.spaceAfterComma =>
              OutOperands(formatted, parsed, config) = parsed.operands
        /\ parsed.operands # <<>> /\ config.spaceAfterComma =>
              /\ CountCommas(OutOperands(formatted, parsed, config)) = CountCommas(parsed.operands)
              /\ \A k \in (OperandStart(parsed, config) + 1)..CodeEnd(formatted, parsed) :
                    formatted[k] = "," =>
                       /\ k + 1 <= Len(formatted) /\ formatted[k + 1] = " "
                       /\ k + 2 <= Len(formatted) => formatted[k + 2] # " "

\* C7: with spaceAfterComma every comma of the operand field that is not its
\* last character is followed in the output by exactly one space, and a comma
\* that ends the operand field ends the code of the output line; without
\* spaceAfterComma the operands are emitted as parsed; the label, the
\* instruction and the comment keep their commas.
CommaNormalization ==
    lpc = "formatted" /\ ~IsBlank(line) =>
        /\ OtherCommasKept(formatted, parsed, config)
        /\ parsed.operands # <<>> /\ ~config.spaceAfterComma =>
              OutOperands(formatted, parsed, config) = parsed.operands
        /\ parsed.operands # <<>> /\ config.spaceAfterComma =>
              /\ CountCommas(OutOperands(formatted, parsed, config)) = CountCommas(parsed.operands)
              /\ \A k \in (OperandStart(parsed, config) + 1)..(CodeEnd(formatted, parsed) - 1) :
                    formatted[k] = "," => formatted[k + 1] = " " /\ formatted[k + 2] # " "
              /\ formatted[CodeEnd(formatted, parsed)] = ","
                    <=> parsed.operands[Len(parsed.operands)] = ","

CommaNormalizationWitness ==
    /\ lpc = "formatted"
    /\ config.spaceAfterComma
    /\ parsed.comment # <<>>
    /\ CountCommas(parsed.operands) >= 2
    /\ parsed.operands[Len(parsed.operands)] # ","
    /\ formatted # line
    /\ \E k \in 1..(Len(parsed.operands) - 1) :
          parsed.operands[k] = "," /\ parsed.operands[k + 1] # " "

\* C8: an instruction token in neither table is emitted as written whatever
\* the flags; a token of the instruction table is uppercased exactly when
\* uppercaseInstructions is set, one of the directive table exactly when
\* uppercaseDirectives is set.
UnknownVerbatim ==
    lpc = "formatted" /\ parsed.instruction # <<>> =>
        LET inst == parsed.instruction
            upper == toUpperCase(inst)
            at == InstructionStart(parsed, config)
            emitted == SubSeq(formatted, at + 1, at + Len(inst))
        IN  /\ upper \notin INSTRUCTIONS \cup DIRECTIVES => emitted = inst
            /\ upper \in INSTRUCTIONS =>
                  emitted = IF config.uppercaseInstructions THEN upper ELSE inst
            /\ upper \in DIRECTIVES =>
                  emitted = IF config.uppercaseDirectives THEN upper ELSE inst

UnknownVerbatimWitness ==
    /\ lpc = "formatted"
    /\ parsed.instruction = <<"q">>
    /\ config.uppercaseInstructions /\ config.uppercaseDirectives
    /\ SubSeq(formatted, InstructionStart(parsed, config) + 1,
              InstructionStart(parsed, config) + 1) = <<"q">>

\* C9: a non-blank line whose first non-blank character is '*' or ';' parses
\* to a comment only; formatLine returns it unchanged when it starts at
\* column 0, and otherwise commentColumn spaces followed by the line without
\* its leading whitespace.
WholeLineComment ==
    lpc = "formatted" /\ IsWholeLineComment(line) =>
        /\ parsed.label = <<>> /\ parsed.instruction = <<>> /\ parsed.operands = <<>>
        /\ parsed.comment # <<>>
        /\ FirstNonBlank(line) = 1 => formatted = line
        /\ FirstNonBlank(line) > 1 =>
              formatted = [k \in 1..config.commentColumn |-> " "]
                             \o SubSeq(line, FirstNonBlank(line), Len(line))

WholeLineCommentWitness ==
    /\ lpc = "formatted" /\ IsWholeLineComment(line)
    /\ FirstNonBlank(line) = 1
    /\ config.commentColumn > 0
    /\ formatted = line

\* C10: the instruction starts at column instructionColumn when there is no
\* label or the label is shorter than instructionColumn; a label at least
\* that long is followed by exactly one space and the instruction; a label
\* starts at column 0.
InstructionColumn ==
    lpc = "formatted" /\ parsed.instruction # <<>> =>
        LET lab == parsed.label
            inst == parsed.instruction
            ic == config.instructionColumn
        IN  /\ lab # <<>> => SubSeq(formatted, 1, Len(lab)) = lab
            /\ Len(lab) < ic \/ lab = <<>> =>
                  /\ \A k \in (Len(lab) + 1)..ic : formatted[k] = " "
                  /\ toUpperCase(SubSeq(formatted, ic + 1, ic + Len(inst))) = toUpperCase(inst)
            /\ lab # <<>> /\ Len(lab) >= ic =>
                  /\ formatted[Len(lab) + 1] = " "
                  /\ toUpperCase(SubSeq(formatted, Len(lab) + 2, Len(lab) + 1 + Len(inst)))
                        = toUpperCase(inst)

InstructionColumnWitness ==
    /\ lpc = "formatted"
    /\ parsed.instruction # <<>>
    /\ parsed.label # <<>>
    /\ Len(parsed.label) = config.instructionColumn
    /\ config.instructionColumn > 0
    /\ formatted[Len(parsed.label) + 1] = " "

====
